---- MODULE Spec2Model ----
(***************************************************************************)
(* Model of the matchbook limit order book (src/src/orderbook.rs,          *)
(* src/src/order.rs, src/src/types.rs, src/src/trade.rs).                  *)
(*                                                                         *)
(* The book is the Orderbook struct: two price-keyed maps of FIFO queues   *)
(* (bids, asks), the global index (orders) and the trade ledger (trades).  *)
(* Every public method takes &mut self, so calls never overlap; pc records *)
(* whether the caller is between calls ("idle") or inside the loop of      *)
(* match_orders ("match").  One iteration of that loop is one step.  The   *)
(* methods are operators from a book to the book they leave and the        *)
(* Result they return; the actions apply them to the variables.            *)
(*                                                                         *)
(* The pruning task (run_prune_thread) shares the book through an          *)
(* Arc<Mutex<Orderbook>>: ob_lock is that mutex, thread the task's         *)
(* position, timed_out and order_ids its locals, shutdown the atomic flag, *)
(* prune_handle the stored JoinHandle and caller the owner's position in   *)
(* shutdown.                                                               *)
(*                                                                         *)
(* submitted is not state of the library: it is the record a caller may    *)
(* keep of the orders it has had admitted, by id (how many, and the        *)
(* initial quantity of the last one).                                      *)
(***************************************************************************)
EXTENDS Integers, Sequences, FiniteSets, TLC

VARIABLES bids, asks, orders, trades, pc,
          shutdown, prune_handle, thread, timed_out, order_ids, ob_lock, caller,
          submitted

taskvars == <<shutdown, prune_handle, thread, timed_out, order_ids, ob_lock, caller>>

vars == <<bids, asks, orders, trades, pc,
          shutdown, prune_handle, thread, timed_out, order_ids, ob_lock, caller,
          submitted>>

(***************************************************************************)
(* Bounds of the model.                                                    *)
(***************************************************************************)
MaxId == 3
MaxQty == 2
MaxLimit == 2
MaxTrades == 1
MaxPair == 2
MaxLedger == 2
MaxTimes == 2

(* Price(u32): the width is scaled down to two bits, so u32::MAX is 3.     *)
PriceMax == 3
PriceMin == 0

(* Quantity(u32), scaled in the same way: u32::MAX is 3. *)
QuantityMax == 3

Ids == 1..MaxId
Prices == PriceMin..PriceMax
LimitPrices == 1..MaxLimit
Quantities == 0..MaxQty
OrderTypes == {"GoodTillCancelled", "FillAndKill", "FillOrKill", "GoodForDay", "Market"}
Sides == {"Buy", "Sell"}

(***************************************************************************)
(* Order (src/src/order.rs)                                                *)
(***************************************************************************)
OrderNew(order_id, order_type, side, price, initial_quantity) ==
    [order_id |-> order_id,
     order_type |-> order_type,
     side |-> side,
     price |-> IF order_type = "Market"
               THEN (IF side = "Buy" THEN PriceMax ELSE PriceMin)
               ELSE price,
     initial_quantity |-> initial_quantity,
     remaining_quantity |-> initial_quantity]

(* Quantity subtraction saturates at zero. *)
QtySub(a, b) == IF a >= b THEN a - b ELSE 0

(* As Fill, with the remaining quantity left as it is. *)
FillKept(o, quantity) == o

(* Order::fill; the caller in match_orders drops the Result. *)
Fill(o, quantity) ==
    IF quantity > o.remaining_quantity
    THEN o
    ELSE [o EXCEPT !.remaining_quantity = QtySub(o.remaining_quantity, quantity)]

(* The Result of Order::fill (lines 50-52). *)
FillResult(o, quantity) ==
    IF quantity > o.remaining_quantity THEN "FillOverflow" ELSE "Ok"

IsFilled(o) == o.remaining_quantity = 0

(***************************************************************************)
(* Orders: a VecDeque<Order> (src/src/order.rs)                            *)
(***************************************************************************)
Contains(q, id) == \E i \in 1..Len(q) : q[i].order_id = id

Position(q, id) ==
    CHOOSE i \in 1..Len(q) :
        /\ q[i].order_id = id
        /\ \A j \in 1..(i - 1) : q[j].order_id # id

Get(q, id) == q[Position(q, id)]

(* As Delete, with the first order removed whichever id is asked for. *)
DeleteFront(q, id) == IF Contains(q, id) THEN Tail(q) ELSE q

Delete(q, id) ==
    IF Contains(q, id)
    THEN SubSeq(q, 1, Position(q, id) - 1) \o SubSeq(q, Position(q, id) + 1, Len(q))
    ELSE q

(* As PushBack, with the order put at the front. *)
PushFront(q, o) == <<o>> \o q

PushBack(q, o) == Append(q, o)

Pop(q) == Tail(q)

(* As SetRemaining, with the modified order moved to the back. *)
SetRemainingRequeued(q, id, new_quantity) ==
    IF Contains(q, id)
    THEN Delete(q, id) \o <<[Get(q, id) EXCEPT !.remaining_quantity = new_quantity]>>
    ELSE q

SetRemaining(q, id, new_quantity) ==
    IF Contains(q, id)
    THEN [q EXCEPT ![Position(q, id)].remaining_quantity = new_quantity]
    ELSE q

(***************************************************************************)
(* BTreeMap<Price, Orders>: a function whose domain is the set of keys.    *)
(***************************************************************************)
EmptyMap == [p \in {} |-> <<>>]
MapInsert(m, k, v) == [p \in (DOMAIN m) \cup {k} |-> IF p = k THEN v ELSE m[p]]
MapRemove(m, k) == [p \in (DOMAIN m) \ {k} |-> m[p]]
SetMax(S) == CHOOSE x \in S : \A y \in S : y <= x
SetMin(S) == CHOOSE x \in S : \A y \in S : x <= y

(* As BestAsk, with the ask map read from its last key. *)
BestAskLast(a) == SetMax(DOMAIN a)

(* bids is keyed by Reverse(price): its first key is the highest price. *)
BestBid(b) == SetMax(DOMAIN b)
BestAsk(a) == SetMin(DOMAIN a)

(***************************************************************************)
(* Orderbook (src/src/orderbook.rs)                                        *)
(***************************************************************************)
Book(b, a, o, t) == [bids |-> b, asks |-> a, orders |-> o, trades |-> t]

ThisBook == Book(bids, asks, orders, trades)

Returns(B, r) == [book |-> B, result |-> r]

Init ==
    /\ bids = EmptyMap
    /\ asks = EmptyMap
    /\ orders = <<>>
    /\ trades = <<>>
    /\ pc = "idle"
    /\ shutdown = FALSE
    /\ prune_handle = "None"
    /\ thread = "none"
    /\ timed_out = FALSE
    /\ order_ids = <<>>
    /\ ob_lock = "free"
    /\ caller = "run"
    /\ submitted = [id \in Ids |-> [times |-> 0, initial_quantity |-> 0]]

(* As can_match, with equal prices taken not to cross. *)
can_match_strictly(B, side, price) ==
    IF side = "Buy"
    THEN (IF DOMAIN B.asks # {} THEN BestAsk(B.asks) < price ELSE FALSE)
    ELSE (IF DOMAIN B.bids # {} THEN BestBid(B.bids) > price ELSE FALSE)

can_match(B, side, price) ==
    IF side = "Buy"
    THEN (IF DOMAIN B.asks # {} THEN BestAsk(B.asks) <= price ELSE FALSE)
    ELSE (IF DOMAIN B.bids # {} THEN BestBid(B.bids) >= price ELSE FALSE)

RECURSIVE SumRemaining(_)
SumRemaining(q) ==
    IF q = <<>> THEN 0 ELSE Head(q).remaining_quantity + SumRemaining(Tail(q))

RECURSIVE SumLevels(_, _)
SumLevels(m, keys) ==
    IF keys = {}
    THEN 0
    ELSE LET p == CHOOSE x \in keys : TRUE
         IN SumRemaining(m[p]) + SumLevels(m, keys \ {p})

(* As can_fully_fill, with the quantity of every opposing level counted. *)
can_fully_fill_anywhere(B, side, price, remaining_quantity) ==
    LET available ==
            IF side = "Buy"
            THEN SumLevels(B.asks, DOMAIN B.asks)
            ELSE SumLevels(B.bids, DOMAIN B.bids)
    IN available >= remaining_quantity

can_fully_fill(B, side, price, remaining_quantity) ==
    LET available ==
            IF side = "Buy"
            THEN SumLevels(B.asks, {p \in DOMAIN B.asks : p <= price})
            ELSE SumLevels(B.bids, {p \in DOMAIN B.bids : p >= price})
    IN available >= remaining_quantity

(* As has_liquidity, with the order's own side read. *)
has_liquidity_own_side(B, side) ==
    IF side = "Buy" THEN DOMAIN B.bids # {} ELSE DOMAIN B.asks # {}

has_liquidity(B, side) ==
    IF side = "Buy" THEN DOMAIN B.asks # {} ELSE DOMAIN B.bids # {}

(* As Admission, with the check of the id made after those of the type. *)
AdmissionTypeFirst(B, order) ==
    IF order.order_type = "FillAndKill" /\ ~can_match(B, order.side, order.price)
    THEN "CantMatch"
    ELSE IF order.order_type = "FillOrKill"
            /\ ~can_fully_fill(B, order.side, order.price, order.remaining_quantity)
    THEN "CantFullyFill"
    ELSE IF order.order_type = "Market" /\ ~has_liquidity(B, order.side)
    THEN "NoLiquidity"
    ELSE IF Contains(B.orders, order.order_id) THEN "IdExists"
    ELSE "Ok"

(* As Admission, without the check of the id. *)
AdmissionAnyId(B, order) ==
    IF order.order_type = "FillAndKill" /\ ~can_match(B, order.side, order.price)
    THEN "CantMatch"
    ELSE IF order.order_type = "FillOrKill"
            /\ ~can_fully_fill(B, order.side, order.price, order.remaining_quantity)
    THEN "CantFullyFill"
    ELSE IF order.order_type = "Market" /\ ~has_liquidity(B, order.side)
    THEN "NoLiquidity"
    ELSE "Ok"

(* The checks of add_order that run before the insertion (lines 80-103). *)
Admission(B, order) ==
    IF Contains(B.orders, order.order_id) THEN "IdExists"
    ELSE IF order.order_type = "FillAndKill" /\ ~can_match(B, order.side, order.price)
    THEN "CantMatch"
    ELSE IF order.order_type = "FillOrKill"
            /\ ~can_fully_fill(B, order.side, order.price, order.remaining_quantity)
    THEN "CantFullyFill"
    ELSE IF order.order_type = "Market" /\ ~has_liquidity(B, order.side)
    THEN "NoLiquidity"
    ELSE "Ok"

(* As LevelInsert, with the order pushed at the front of its level. *)
LevelInsertFront(m, order) ==
    IF order.price \in DOMAIN m
    THEN [m EXCEPT ![order.price] = <<order>> \o @]
    ELSE MapInsert(m, order.price, PushBack(<<>>, order))

(* The insertion into one side (lines 107-115 and 118-126). *)
LevelInsert(m, order) ==
    IF order.price \in DOMAIN m
    THEN [m EXCEPT ![order.price] = PushBack(@, order)]
    ELSE MapInsert(m, order.price, PushBack(<<>>, order))

(* As add_order, with the insertion made before the checks. *)
add_order_then_check(B, order) ==
    Returns([B EXCEPT
               !.bids = IF order.side = "Buy" THEN LevelInsert(@, order) ELSE @,
               !.asks = IF order.side = "Sell" THEN LevelInsert(@, order) ELSE @,
               !.orders = PushBack(@, order)],
            Admission(B, order))

add_order(B, order) ==
    IF Admission(B, order) # "Ok"
    THEN Returns(B, Admission(B, order))
    ELSE Returns([B EXCEPT
                    !.bids = IF order.side = "Buy" THEN LevelInsert(@, order) ELSE @,
                    !.asks = IF order.side = "Sell" THEN LevelInsert(@, order) ELSE @,
                    !.orders = PushBack(@, order)],
                 "Ok")

LevelModify(m, price, order_id, new_quantity) ==
    IF price \in DOMAIN m
    THEN [m EXCEPT ![price] = SetRemaining(@, order_id, new_quantity)]
    ELSE m

modify_order(B, order_id, new_quantity) ==
    IF ~Contains(B.orders, order_id)
    THEN Returns(B, "OrderNotFound")
    ELSE LET o == Get(B.orders, order_id)
         IN Returns([B EXCEPT
                       !.orders = SetRemaining(@, order_id, new_quantity),
                       !.bids = IF o.side = "Buy"
                                THEN LevelModify(@, o.price, order_id, new_quantity)
                                ELSE @,
                       !.asks = IF o.side = "Sell"
                                THEN LevelModify(@, o.price, order_id, new_quantity)
                                ELSE @],
                    "Ok")

(* As LevelCancel, with the order left at its level. *)
LevelCancelSkipped(m, price, order_id) == m

(* cancel_order's removal from one side (lines 325-330 and 333-338). *)
LevelCancel(m, price, order_id) ==
    IF price \in DOMAIN m
    THEN LET q == Delete(m[price], order_id)
         IN IF q = <<>> THEN MapRemove(m, price) ELSE [m EXCEPT ![price] = q]
    ELSE m

cancel_order(B, order_id) ==
    IF ~Contains(B.orders, order_id)
    THEN Returns(B, "OrderNotFound")
    ELSE LET o == Get(B.orders, order_id)
         IN Returns([B EXCEPT
                       !.orders = Delete(@, order_id),
                       !.bids = IF o.side = "Buy"
                                THEN LevelCancel(@, o.price, order_id)
                                ELSE @,
                       !.asks = IF o.side = "Sell"
                                THEN LevelCancel(@, o.price, order_id)
                                ELSE @],
                    "Ok")

(* As CancelAll, with the first id only cancelled. *)
CancelFirst(B, ids) == IF ids = <<>> THEN B ELSE cancel_order(B, Head(ids)).book

(* for id in ids { let _ = self.cancel_order(id); } *)
RECURSIVE CancelAll(_, _)
CancelAll(B, ids) ==
    IF ids = <<>>
    THEN B
    ELSE CancelAll(cancel_order(B, Head(ids)).book, Tail(ids))

IdsOf(q) == [i \in 1..Len(q) |-> q[i].order_id]

(***************************************************************************)
(* match_orders (lines 217-310)                                            *)
(***************************************************************************)
(* As Crossing, with the loop left when the best prices are equal. *)
CrossingAbove(B) ==
    /\ DOMAIN B.bids # {}
    /\ DOMAIN B.asks # {}
    /\ ~(BestBid(B.bids) <= BestAsk(B.asks))

(* As Crossing, with the loop going on whatever the best prices. *)
CrossingAtAnyPrice(B) ==
    /\ DOMAIN B.bids # {}
    /\ DOMAIN B.asks # {}

(* The loop continues: both sides have a first key, and line 222 does not  *)
(* break.                                                                  *)
Crossing(B) ==
    /\ DOMAIN B.bids # {}
    /\ DOMAIN B.asks # {}
    /\ ~(BestBid(B.bids) < BestAsk(B.asks))

(* As MinQty, with the larger of the two taken. *)
MaxQtyOf(a, b) == IF a <= b THEN b ELSE a

MinQty(a, b) == IF a <= b THEN a ELSE b

(* As TradePrice, with the ask price always used. *)
TradePriceOfAsk(best_bid_price, best_ask_price) == best_ask_price

(* Line 246. *)
TradePrice(best_bid_price, best_ask_price) ==
    IF best_ask_price = PriceMin THEN best_bid_price ELSE best_ask_price

(* As TradeInfoNew, with a quantity of 1 whatever was filled. *)
TradeInfoNewOfOne(order_id, price, quantity) ==
    [order_id |-> order_id, price |-> price, quantity |-> 1]

TradeInfoNew(order_id, price, quantity) ==
    [order_id |-> order_id, price |-> price, quantity |-> quantity]

(* As PopFilled, with the filled head left in its queue. *)
PopFilledKept(q) == q

(* Lines 259-262 and 269-272: the queue of a best level once its head, when *)
(* filled, is popped.                                                      *)
PopFilled(q) == IF q # <<>> /\ IsFilled(Head(q)) THEN Pop(q) ELSE q

(* As LevelStore, with an emptied level kept in the map. *)
LevelStoreKept(m, price, q) == [m EXCEPT ![price] = q]

(* Lines 263-265 and 273-275. *)
LevelStore(m, price, q) ==
    IF q = <<>> THEN MapRemove(m, price) ELSE [m EXCEPT ![price] = q]

(* The order the loop takes from a best level (lines 230-231). *)
Front(q) == Head(q)

(* One iteration of the while loop (lines 226-276), from a crossing book   *)
(* whose best levels hold an order.                                        *)
MatchIteration(B) ==
    LET best_bid_price == BestBid(B.bids)
        best_ask_price == BestAsk(B.asks)
        bid_orders == B.bids[best_bid_price]
        ask_orders == B.asks[best_ask_price]
        bid_order == Front(bid_orders)
        ask_order == Front(ask_orders)
        to_fill == MinQty(bid_order.remaining_quantity, ask_order.remaining_quantity)
        bid_filled == Fill(bid_order, to_fill)
        ask_filled == Fill(ask_order, to_fill)
        bid_id == bid_order.order_id
        ask_id == ask_order.order_id
        trade_price == TradePrice(best_bid_price, best_ask_price)
        bid_queue == [bid_orders EXCEPT ![1] = bid_filled]
        ask_queue == [ask_orders EXCEPT ![1] = ask_filled]
        orders1 == IF IsFilled(Head(bid_queue)) THEN Delete(B.orders, bid_id) ELSE B.orders
        orders2 == IF IsFilled(Head(ask_queue)) THEN Delete(orders1, ask_id) ELSE orders1
    IN Book(LevelStore(B.bids, best_bid_price, PopFilled(bid_queue)),
            LevelStore(B.asks, best_ask_price, PopFilled(ask_queue)),
            orders2,
            Append(B.trades,
                   [bid_trade |-> TradeInfoNew(bid_id, trade_price, to_fill),
                    ask_trade |-> TradeInfoNew(ask_id, trade_price, to_fill)]))

(* As IsSwept, with Market orders left out of the sweep. *)
IsSweptFillAndKill(o) == o.order_type = "FillAndKill"

(* Lines 279-305: the ids collected from the first level of one side. *)
IsSwept(o) == o.order_type \in {"FillAndKill", "Market"}

(* As SweepIds, with the head of the level only read. *)
SweepIdsOfHead(m, best) ==
    IF DOMAIN m = {} THEN <<>> ELSE IdsOf(SelectSeq(SubSeq(m[best], 1, 1), IsSwept))

SweepIds(m, best) ==
    IF DOMAIN m = {} THEN <<>> ELSE IdsOf(SelectSeq(m[best], IsSwept))

(* As Sweep, with no order cancelled. *)
SweepSkipped(B) == B

(* Lines 278-310: what match_orders does once the loop has ended. *)
Sweep(B) ==
    LET bid_fak_ids == SweepIds(B.bids, SetMax(DOMAIN B.bids))
        ask_fak_ids == SweepIds(B.asks, SetMin(DOMAIN B.asks))
    IN CancelAll(B, bid_fak_ids \o ask_fak_ids)

(* u32 addition overflows to a panic where overflow checks are compiled in *)
(* (debug builds) and wraps where they are not (release builds).           *)
Builds == {"debug", "release"}

NoPrice == [kind |-> "None", price |-> PriceMin]

SomePrice(p) == [kind |-> "Some", price |-> p]

Panic == [kind |-> "panic", price |-> PriceMin]

(* Lines 73-77. *)
midprice(B, build) ==
    IF DOMAIN B.bids = {} \/ DOMAIN B.asks = {}
    THEN NoPrice
    ELSE LET sum == BestBid(B.bids) + BestAsk(B.asks)
         IN IF sum <= PriceMax
            THEN SomePrice(sum \div 2)
            ELSE IF build = "debug"
                 THEN Panic
                 ELSE SomePrice((sum % (PriceMax + 1)) \div 2)

(* u32::saturating_add (lines 353 and 365). *)
SaturatingAdd(a, b) == IF a + b > QuantityMax THEN QuantityMax ELSE a + b

(* As LevelQuantity, with the initial quantities added up. *)
RECURSIVE LevelQuantityInitial(_, _)
LevelQuantityInitial(acc, q) ==
    IF q = <<>>
    THEN acc
    ELSE LevelQuantityInitial(SaturatingAdd(acc, Head(q).initial_quantity), Tail(q))

(* The fold over the orders of one level (lines 350-353 and 362-365). *)
RECURSIVE LevelQuantity(_, _)
LevelQuantity(acc, q) ==
    IF q = <<>>
    THEN acc
    ELSE LevelQuantity(SaturatingAdd(acc, Head(q).remaining_quantity), Tail(q))

(* The keys of a map in the order its iterator gives them: the bid map is  *)
(* keyed by Reverse(price), the ask map by price.                          *)
RECURSIVE Descending(_)
Descending(S) ==
    IF S = {} THEN <<>> ELSE <<SetMax(S)>> \o Descending(S \ {SetMax(S)})

RECURSIVE Ascending(_)
Ascending(S) ==
    IF S = {} THEN <<>> ELSE <<SetMin(S)>> \o Ascending(S \ {SetMin(S)})

LevelInfosOf(m, keys) ==
    [i \in 1..Len(keys) |->
        [price |-> keys[i], quantity |-> LevelQuantity(0, m[keys[i]])]]

get_levels(B) ==
    [bids |-> LevelInfosOf(B.bids, Descending(DOMAIN B.bids)),
     asks |-> LevelInfosOf(B.asks, Ascending(DOMAIN B.asks))]

(* As clear_trades, with the last trade only removed. *)
clear_last_trade(B) == [B EXCEPT !.trades = SubSeq(@, 1, Len(@) - 1)]

clear_trades(B) == [B EXCEPT !.trades = <<>>]

IsGoodForDay(o) == o.order_type = "GoodForDay"

(* As prune_good_for_day_orders, with the first collected id only          *)
(* cancelled.                                                              *)
prune_one_good_for_day_order(B) ==
    LET gfd_ids == IdsOf(SelectSeq(B.orders, IsGoodForDay))
    IN IF gfd_ids = <<>> THEN B ELSE cancel_order(B, Head(gfd_ids)).book

prune_good_for_day_orders(B) ==
    CancelAll(B, IdsOf(SelectSeq(B.orders, IsGoodForDay)))

(***************************************************************************)
(* The calls of the owner of the book.                                     *)
(***************************************************************************)
Becomes(B) ==
    /\ bids' = B.bids
    /\ asks' = B.asks
    /\ orders' = B.orders
    /\ trades' = B.trades

AddOrder(order) ==
    /\ pc = "idle"
    /\ Becomes(add_order(ThisBook, order).book)
    /\ UNCHANGED pc
    /\ UNCHANGED taskvars
    /\ UNCHANGED submitted

ModifyOrder(order_id, new_quantity) ==
    /\ pc = "idle"
    /\ Becomes(modify_order(ThisBook, order_id, new_quantity).book)
    /\ UNCHANGED pc
    /\ UNCHANGED taskvars
    /\ UNCHANGED submitted

CancelOrder(order_id) ==
    /\ pc = "idle"
    /\ Becomes(cancel_order(ThisBook, order_id).book)
    /\ UNCHANGED pc
    /\ UNCHANGED taskvars
    /\ UNCHANGED submitted

MatchCall ==
    /\ pc = "idle"
    /\ pc' = "match"
    /\ UNCHANGED <<bids, asks, orders, trades>>
    /\ UNCHANGED taskvars
    /\ UNCHANGED submitted

(* One iteration of the loop; front_mut().unwrap() panics on an empty      *)
(* level.                                                                  *)
MatchStep ==
    /\ pc = "match"
    /\ Crossing(ThisBook)
    /\ IF bids[BestBid(bids)] = <<>> \/ asks[BestAsk(asks)] = <<>>
       THEN /\ pc' = "panic"
            /\ UNCHANGED <<bids, asks, orders, trades>>
       ELSE /\ Becomes(MatchIteration(ThisBook))
            /\ UNCHANGED pc
    /\ UNCHANGED taskvars
    /\ UNCHANGED submitted

(* The loop has ended: the sweep, then match_orders returns. *)
MatchSweep ==
    /\ pc = "match"
    /\ ~Crossing(ThisBook)
    /\ Becomes(Sweep(ThisBook))
    /\ pc' = "idle"
    /\ UNCHANGED taskvars
    /\ UNCHANGED submitted

ClearTrades ==
    /\ pc = "idle"
    /\ Becomes(clear_trades(ThisBook))
    /\ UNCHANGED pc
    /\ UNCHANGED taskvars
    /\ UNCHANGED submitted

PruneGoodForDayOrders ==
    /\ pc = "idle"
    /\ Becomes(prune_good_for_day_orders(ThisBook))
    /\ UNCHANGED pc
    /\ UNCHANGED taskvars
    /\ UNCHANGED submitted

(***************************************************************************)
(* The callers.  A rejected call leaves every variable as it is, so it is  *)
(* a stuttering step of each specification below.                          *)
(***************************************************************************)
(* The owner reads and clears the ledger once it holds MaxTrades trades. *)
Drained == Len(trades) < MaxTrades

Submissions(ids, types) ==
    {OrderNew(id, t, s, p, q) :
        id \in ids, t \in types, s \in Sides, p \in LimitPrices, q \in 1..MaxQty}

OrderInputs == Submissions(Ids, OrderTypes)

Admitted(order) == Admission(ThisBook, order) = "Ok"

Live(id) == Contains(orders, id)

(* A caller that submits orders of every type, cancels, matches and prunes. *)
Next ==
    \/ Drained /\ \E order \in OrderInputs : Admitted(order) /\ AddOrder(order)
    \/ Drained /\ \E id \in Ids : Live(id) /\ CancelOrder(id)
    \/ Drained /\ MatchCall
    \/ MatchStep
    \/ MatchSweep
    \/ Drained /\ PruneGoodForDayOrders
    \/ ClearTrades

Spec == Init /\ [][Next]_vars

(* A caller that also modifies its resting orders; it submits              *)
(* GoodTillCancelled orders only.                                          *)
RestingInputs == Submissions(Ids, {"GoodTillCancelled"})

NextModify ==
    \/ Drained /\ \E order \in RestingInputs : Admitted(order) /\ AddOrder(order)
    \/ Drained /\ \E id \in Ids, q \in 1..MaxQty : Live(id) /\ ModifyOrder(id, q)
    \/ Drained /\ \E id \in Ids : Live(id) /\ CancelOrder(id)
    \/ Drained /\ MatchCall
    \/ MatchStep
    \/ MatchSweep
    \/ ClearTrades

SpecModify == Init /\ [][NextModify]_vars

(* A caller with two order ids that makes every call, the rejected ones    *)
(* included, and modifies to any quantity.                                 *)
PairIds == 1..MaxPair

PairInputs == Submissions(PairIds, OrderTypes)

NextCalls ==
    \/ Drained /\ \E order \in PairInputs : AddOrder(order)
    \/ Drained /\ \E id \in PairIds, q \in Quantities : ModifyOrder(id, q)
    \/ Drained /\ \E id \in PairIds : CancelOrder(id)
    \/ Drained /\ MatchCall
    \/ MatchStep
    \/ MatchSweep
    \/ Drained /\ PruneGoodForDayOrders
    \/ ClearTrades

SpecCalls == Init /\ [][NextCalls]_vars

(* match_orders is a loop in the caller's thread: once called, the thread  *)
(* goes on running it, one iteration after the other, then the sweep.      *)
SpecCallsFair == SpecCalls /\ WF_vars(MatchStep) /\ WF_vars(MatchSweep)

(* A caller with two order ids that keeps the ledger over several passes   *)
(* and clears it when it likes; it submits GoodTillCancelled and           *)
(* GoodForDay orders.                                                      *)
KeptInputs == Submissions(PairIds, {"GoodTillCancelled", "GoodForDay"})

LedgerHasRoom == Len(trades) < MaxLedger

NextLedger ==
    \/ \E order \in KeptInputs : Admitted(order) /\ AddOrder(order)
    \/ \E id \in PairIds, q \in 1..MaxQty : Live(id) /\ ModifyOrder(id, q)
    \/ \E id \in PairIds : Live(id) /\ CancelOrder(id)
    \/ LedgerHasRoom /\ MatchCall
    \/ MatchStep
    \/ MatchSweep
    \/ PruneGoodForDayOrders
    \/ ClearTrades

SpecLedger == Init /\ [][NextLedger]_vars

(* A caller with two order ids that never modifies an order and never      *)
(* clears the ledger, and that keeps the record of what it has had         *)
(* admitted; it gives an id to at most MaxTimes orders.                    *)
Recorded(order) ==
    [submitted EXCEPT ![order.order_id] =
        [times |-> @.times + 1, initial_quantity |-> order.initial_quantity]]

AddRecorded(order) ==
    /\ pc = "idle"
    /\ Becomes(add_order(ThisBook, order).book)
    /\ submitted' = Recorded(order)
    /\ UNCHANGED pc
    /\ UNCHANGED taskvars

IdHasRoom(id) == submitted[id].times < MaxTimes

NextConserve ==
    \/ \E order \in PairInputs :
          Admitted(order) /\ IdHasRoom(order.order_id) /\ AddRecorded(order)
    \/ \E id \in PairIds : Live(id) /\ CancelOrder(id)
    \/ LedgerHasRoom /\ MatchCall
    \/ MatchStep
    \/ MatchSweep
    \/ PruneGoodForDayOrders

SpecConserve == Init /\ [][NextConserve]_vars

(* A caller that calls match_orders right after every add_order that       *)
(* returns Ok: the two calls are one step of the caller, which ends inside *)
(* match_orders.  It submits orders of every type with a quantity of 1 or  *)
(* more, never modifies, and reads and clears the ledger before it adds.   *)
AddThenMatch(order) ==
    /\ pc = "idle"
    /\ add_order(ThisBook, order).result = "Ok"
    /\ Becomes(add_order(ThisBook, order).book)
    /\ pc' = "match"
    /\ UNCHANGED taskvars
    /\ UNCHANGED submitted

(* The caller has read and cleared the ledger. *)
LedgerRead == trades = <<>>

NextDiscipline ==
    \/ LedgerRead /\ \E order \in OrderInputs : AddThenMatch(order)
    \/ \E id \in Ids : Live(id) /\ CancelOrder(id)
    \/ MatchStep
    \/ MatchSweep
    \/ PruneGoodForDayOrders
    \/ ClearTrades

SpecDiscipline == Init /\ [][NextDiscipline]_vars

(***************************************************************************)
(* The pruning task and shutdown (lines 395-466)                           *)
(***************************************************************************)
(* The owner, holding the book in an Arc<Mutex<Orderbook>>, starts the     *)
(* task with clones of the Arc, of the flag and of the condition variable  *)
(* and stores its JoinHandle.                                              *)
Spawn ==
    /\ pc = "idle"
    /\ caller = "run"
    /\ ob_lock = "free"
    /\ prune_handle = "None"
    /\ thread = "none"
    /\ prune_handle' = "Some"
    /\ thread' = "loop"
    /\ UNCHANGED <<bids, asks, orders, trades, pc>>
    /\ UNCHANGED <<shutdown, timed_out, order_ids, ob_lock, caller>>
    /\ UNCHANGED submitted

(* Lines 402-424: the wait duration is computed and the task waits on the  *)
(* condition variable.                                                     *)
TaskWait ==
    /\ thread = "loop"
    /\ thread' = "wait"
    /\ UNCHANGED <<bids, asks, orders, trades, pc>>
    /\ UNCHANGED <<shutdown, prune_handle, timed_out, order_ids, ob_lock, caller>>
    /\ UNCHANGED submitted

(* wait_timeout returns because the duration has passed. *)
TaskTimeout ==
    /\ thread = "wait"
    /\ thread' = "woken"
    /\ timed_out' = TRUE
    /\ UNCHANGED <<bids, asks, orders, trades, pc>>
    /\ UNCHANGED <<shutdown, prune_handle, order_ids, ob_lock, caller>>
    /\ UNCHANGED submitted

(* wait_timeout returns early without a notification, as Condvar allows. *)
TaskSpuriousWake ==
    /\ thread = "wait"
    /\ thread' = "woken"
    /\ timed_out' = FALSE
    /\ UNCHANGED <<bids, asks, orders, trades, pc>>
    /\ UNCHANGED <<shutdown, prune_handle, order_ids, ob_lock, caller>>
    /\ UNCHANGED submitted

(* Line 426. *)
TaskCheck ==
    /\ thread = "woken"
    /\ thread' = IF shutdown \/ ~timed_out THEN "exited" ELSE "collect"
    /\ UNCHANGED <<bids, asks, orders, trades, pc>>
    /\ UNCHANGED <<shutdown, prune_handle, timed_out, order_ids, ob_lock, caller>>
    /\ UNCHANGED submitted

(* The task can take the mutex of the book: no call of the owner is under  *)
(* way.                                                                    *)
LockFree == ob_lock = "free" /\ pc = "idle"

(* Lines 432-439: lock, collect the GoodForDay ids, unlock. *)
TaskCollect ==
    /\ thread = "collect"
    /\ LockFree
    /\ order_ids' = IdsOf(SelectSeq(orders, IsGoodForDay))
    /\ thread' = "cancel"
    /\ UNCHANGED <<bids, asks, orders, trades, pc>>
    /\ UNCHANGED <<shutdown, prune_handle, timed_out, ob_lock, caller>>
    /\ UNCHANGED submitted

(* Lines 443-448: lock, cancel the collected ids, unlock; the loop starts  *)
(* again.                                                                  *)
TaskCancel ==
    /\ thread = "cancel"
    /\ LockFree
    /\ Becomes(CancelAll(ThisBook, order_ids))
    /\ order_ids' = <<>>
    /\ thread' = "loop"
    /\ UNCHANGED pc
    /\ UNCHANGED <<shutdown, prune_handle, timed_out, ob_lock, caller>>
    /\ UNCHANGED submitted

TaskNext ==
    \/ TaskWait
    \/ TaskTimeout
    \/ TaskSpuriousWake
    \/ TaskCheck
    \/ TaskCollect
    \/ TaskCancel

(* shutdown(&mut self) is reached through the guard of the book's mutex,   *)
(* which the owner holds until the call returns.  Line 452.                *)
ShutdownStore ==
    /\ pc = "idle"
    /\ caller = "run"
    /\ ob_lock = "free"
    /\ ob_lock' = "owner"
    /\ shutdown' = TRUE
    /\ caller' = "notify"
    /\ UNCHANGED <<bids, asks, orders, trades, pc>>
    /\ UNCHANGED <<prune_handle, thread, timed_out, order_ids>>
    /\ UNCHANGED submitted

(* Lines 453-454: notify_all wakes the task if it is waiting. *)
ShutdownNotify ==
    /\ caller = "notify"
    /\ caller' = "join"
    /\ IF thread = "wait"
       THEN thread' = "woken" /\ timed_out' = FALSE
       ELSE UNCHANGED <<thread, timed_out>>
    /\ UNCHANGED <<bids, asks, orders, trades, pc>>
    /\ UNCHANGED <<shutdown, prune_handle, order_ids, ob_lock>>
    /\ UNCHANGED submitted

(* As Joined, with join returning at once. *)
JoinedAtOnce(t) == TRUE

(* JoinHandle::join returns once the thread has finished. *)
Joined(t) == t = "exited"

(* Lines 456-458, and the return of shutdown. *)
ShutdownJoin ==
    /\ caller = "join"
    /\ prune_handle = "Some" => Joined(thread)
    /\ prune_handle' = "None"
    /\ caller' = "down"
    /\ ob_lock' = "free"
    /\ UNCHANGED <<bids, asks, orders, trades, pc>>
    /\ UNCHANGED <<shutdown, thread, timed_out, order_ids>>
    /\ UNCHANGED submitted

(* The owner takes the mutex for one call at a time. *)
OwnerCalls == caller = "run" /\ ob_lock = "free"

NextPrune ==
    \/ OwnerCalls /\ \E order \in KeptInputs : Admitted(order) /\ AddOrder(order)
    \/ OwnerCalls /\ \E id \in PairIds : Live(id) /\ CancelOrder(id)
    \/ Spawn
    \/ TaskNext
    \/ ShutdownStore
    \/ ShutdownNotify
    \/ ShutdownJoin

SpecPrune == Init /\ [][NextPrune]_vars

(***************************************************************************)
(* Properties                                                              *)
(***************************************************************************)
(* match_orders returns in this step. *)
MatchReturns == pc = "match" /\ pc' = "idle"

(* The loop of match_orders appends a trade in this step. *)
Trades1 == pc = "match" /\ Len(trades') = Len(trades) + 1

LastTrade == trades'[Len(trades')]

LevelOrders(m) == UNION {{m[p][i] : i \in 1..Len(m[p])} : p \in DOMAIN m}

Resting == LevelOrders(bids) \cup LevelOrders(asks)

NotCrossed ==
    \/ DOMAIN bids = {}
    \/ DOMAIN asks = {}
    \/ \A b \in DOMAIN bids, a \in DOMAIN asks : b < a

(* C1: when match_orders returns, the bid side is empty, or the ask side   *)
(* is empty, or every bid price is below every ask price.                  *)
C1_NotCrossedAfterMatch == [][MatchReturns => NotCrossed']_vars

(* A pass has traded and returned with both sides still populated. *)
C1_Witness ==
    /\ pc = "idle"
    /\ trades # <<>>
    /\ DOMAIN bids # {}
    /\ DOMAIN asks # {}

(* The orders of the level at which the live order id rests, by the index  *)
(* copy's side and price.                                                  *)
LevelOf(id) ==
    LET o == Get(orders, id)
    IN IF o.side = "Buy" THEN bids[o.price] ELSE asks[o.price]

(* add_order pushes every admitted order at the back of the index and      *)
(* nothing reorders the index: of two live orders the one admitted earlier *)
(* is the one earlier in the index.                                        *)
AdmittedBefore(id1, id2) == Position(orders, id1) < Position(orders, id2)

FirstAdmittedAtLevel(id) ==
    \A i \in 1..Len(LevelOf(id)) :
        LevelOf(id)[i].order_id # id => AdmittedBefore(id, LevelOf(id)[i].order_id)

(* C2: a trade names, on each side, the order admitted earliest among the  *)
(* orders resting at its price level.                                      *)
C2_TimePriority ==
    [][Trades1 => /\ FirstAdmittedAtLevel(LastTrade.bid_trade.order_id)
                  /\ FirstAdmittedAtLevel(LastTrade.ask_trade.order_id)]_vars

(* A trade has filled the earlier of two bids at one price; the later one, *)
(* modified since its admission, still rests behind it.                    *)
C2_Witness ==
    /\ pc = "match"
    /\ trades # <<>>
    /\ \E p \in DOMAIN bids :
          /\ Len(bids[p]) = 2
          /\ bids[p][1].order_id = trades[Len(trades)].bid_trade.order_id
          /\ bids[p][2].remaining_quantity # bids[p][2].initial_quantity

SidePrices(side) == {orders[i].price : i \in {j \in 1..Len(orders) : orders[j].side = side}}

(* C3: a trade pairs the head of the highest bid level with the head of    *)
(* the lowest ask level; no live bid has a higher limit price and no live  *)
(* ask a lower one; and the next trade of the pass is at a bid level no    *)
(* higher and an ask level no lower.                                       *)
C3_PricePriority ==
    [][Trades1 =>
        LET bid_id == LastTrade.bid_trade.order_id
            ask_id == LastTrade.ask_trade.order_id
        IN /\ bid_id = Head(bids[SetMax(DOMAIN bids)]).order_id
           /\ ask_id = Head(asks[SetMin(DOMAIN asks)]).order_id
           /\ \A p \in SidePrices("Buy") : p <= Get(orders, bid_id).price
           /\ \A p \in SidePrices("Sell") : p >= Get(orders, ask_id).price
           /\ (DOMAIN bids' # {} /\ DOMAIN asks' # {} /\ ~NotCrossed')
                => /\ SetMax(DOMAIN bids') <= Get(orders, bid_id).price
                   /\ SetMin(DOMAIN asks') >= Get(orders, ask_id).price]_vars

(* One pass has traded at two ask levels, the lower one first. *)
C3_Witness ==
    /\ Len(trades) = 2
    /\ trades[1].ask_trade.price < trades[2].ask_trade.price
    /\ trades[1].bid_trade.order_id = trades[2].bid_trade.order_id

(* Where an order rests: side and key of the level, place in its queue. *)
PlacesOn(side, m) ==
    UNION {{[side |-> side, price |-> p, at |-> i, order |-> m[p][i]] :
                i \in 1..Len(m[p])} : p \in DOMAIN m}

Places == PlacesOn("Buy", bids) \cup PlacesOn("Sell", asks)

LevelPlaces(id) == {pl \in Places : pl.order.order_id = id}

IndexPlaces(id) == {i \in 1..Len(orders) : orders[i].order_id = id}

(* C4: an id is in the index iff it is in a level queue; it is then once   *)
(* in the index and once in one queue, which is on the order's side and    *)
(* keyed by the order's price.                                             *)
C4_IndexAndLevelsAgree ==
    \A id \in Ids :
        /\ Cardinality(IndexPlaces(id)) <= 1
        /\ Cardinality(LevelPlaces(id)) <= 1
        /\ IndexPlaces(id) # {} <=> LevelPlaces(id) # {}
        /\ \A pl \in LevelPlaces(id) :
              /\ pl.order.side = pl.side
              /\ pl.order.price = pl.price
              /\ \A i \in IndexPlaces(id) :
                    orders[i].side = pl.side /\ orders[i].price = pl.price

(* A pass has filled and evicted one order and left the other, partly      *)
(* filled, in the index and at its level.                                  *)
C4_Witness ==
    /\ pc = "idle"
    /\ trades # <<>>
    /\ Len(orders) = 1
    /\ \E pl \in Places : pl.order.remaining_quantity < orders[1].remaining_quantity

(* C5: every price key of the bid map and of the ask map has a queue that  *)
(* holds an order, and every order of the index has its price key on its   *)
(* side.                                                                   *)
C5_NoEmptyLevel ==
    /\ \A p \in DOMAIN bids : bids[p] # <<>>
    /\ \A p \in DOMAIN asks : asks[p] # <<>>
    /\ \A i \in 1..Len(orders) :
          orders[i].price \in (IF orders[i].side = "Buy" THEN DOMAIN bids ELSE DOMAIN asks)

(* A pass has emptied the ask side and left a bid. *)
C5_Witness ==
    /\ pc = "idle"
    /\ trades # <<>>
    /\ DOMAIN asks = {}
    /\ DOMAIN bids # {}

Errors == {"IdExists", "CantMatch", "CantFullyFill", "NoLiquidity", "OrderNotFound"}

(* C6: a call of add_order, modify_order or cancel_order that returns an   *)
(* error returns the book it was given.                                    *)
C6_ErrorsLeaveBook ==
    /\ \A order \in PairInputs :
          add_order(ThisBook, order).result \in Errors
              => add_order(ThisBook, order).book = ThisBook
    /\ \A id \in PairIds, q \in Quantities :
          modify_order(ThisBook, id, q).result \in Errors
              => modify_order(ThisBook, id, q).book = ThisBook
    /\ \A id \in PairIds :
          cancel_order(ThisBook, id).result \in Errors
              => cancel_order(ThisBook, id).book = ThisBook

(* With an order resting and a trade in the ledger, a FillOrKill           *)
(* submission is rejected for lack of crossing quantity.                   *)
C6_Witness ==
    /\ pc = "idle"
    /\ trades # <<>>
    /\ orders # <<>>
    /\ \E order \in PairInputs : add_order(ThisBook, order).result = "CantFullyFill"

NoneResting(type) == \A o \in Resting : o.order_type # type

(* C7: when match_orders returns, no FillAndKill order is at any level. *)
C7_NoFillAndKillAfterMatch == [][MatchReturns => NoneResting("FillAndKill")']_vars

(* C8: when match_orders returns, no Market order is at any level or in    *)
(* the index.                                                              *)
C8_NoMarketAfterMatch ==
    [][MatchReturns =>
        /\ NoneResting("Market")'
        /\ \A i \in 1..Len(orders') : orders'[i].order_type # "Market"]_vars

(* The loop has ended with a partly filled Market order left in the book. *)
C8_Witness ==
    /\ pc = "match"
    /\ ~Crossing(ThisBook)
    /\ \E o \in Resting :
          /\ o.order_type = "Market"
          /\ o.remaining_quantity >= 1
          /\ o.remaining_quantity < o.initial_quantity

(* C9: when match_orders returns, no FillOrKill order at any level has a   *)
(* remaining quantity above 0 and below its initial quantity.              *)
C9_NoPartialFillOrKill ==
    [][MatchReturns =>
        (\A o \in Resting :
            o.order_type = "FillOrKill"
                => ~(0 < o.remaining_quantity
                     /\ o.remaining_quantity < o.initial_quantity))']_vars

(* C10: a trade is recorded, on both sides, at the price of the ask        *)
(* order's level, unless that price is Price::min(), and then at the price *)
(* of the bid order's level.                                               *)
C10_TradePriceRule ==
    [][Trades1 =>
        LET bid_price == Get(orders, LastTrade.bid_trade.order_id).price
            ask_price == Get(orders, LastTrade.ask_trade.order_id).price
            price == IF ask_price = PriceMin THEN bid_price ELSE ask_price
        IN /\ LastTrade.ask_trade.price = price
           /\ LastTrade.bid_trade.price = price]_vars

(* A Market sell, resting at Price::min(), has traded at a bid's price;    *)
(* the ledger holds the trade.                                             *)
C10_Witness ==
    /\ trades # <<>>
    /\ \E i \in 1..Len(orders) :
          /\ orders[i].order_type = "Market"
          /\ orders[i].side = "Sell"
          /\ orders[i].order_id = trades[Len(trades)].ask_trade.order_id
          /\ trades[Len(trades)].ask_trade.price \in LimitPrices

(* The index copy of a party to the trade appended in this step. *)
BidParty == Get(orders, LastTrade.bid_trade.order_id)

AskParty == Get(orders, LastTrade.ask_trade.order_id)

(* C11: a trade with a Market buy is not recorded at Price::max() and a    *)
(* trade with a Market sell is not recorded at Price::min().               *)
C11_NoSentinelInLedger ==
    [][Trades1 =>
        /\ BidParty.order_type = "Market"
              => LastTrade.bid_trade.price # PriceMax /\ LastTrade.ask_trade.price # PriceMax
        /\ AskParty.order_type = "Market"
              => LastTrade.bid_trade.price # PriceMin /\ LastTrade.ask_trade.price # PriceMin]_vars

(* The limit price of the party admitted earlier. *)
RestingPrice ==
    IF AdmittedBefore(BidParty.order_id, AskParty.order_id)
    THEN BidParty.price
    ELSE AskParty.price

(* C12: a trade between two orders that are not Market orders is recorded  *)
(* at the limit price of the one admitted earlier, be it the bid or the    *)
(* ask.                                                                    *)
C12_RestingPriceGoverns ==
    [][Trades1 /\ BidParty.order_type # "Market" /\ AskParty.order_type # "Market"
        => /\ LastTrade.bid_trade.price = RestingPrice
           /\ LastTrade.ask_trade.price = RestingPrice]_vars

(* C13: a trade carries one price and one quantity on its two sides, its   *)
(* bid_trade names a Buy order and its ask_trade a Sell order, and the two *)
(* ids differ.                                                             *)
C13_TradeWellFormed ==
    [][Trades1 =>
        /\ LastTrade.bid_trade.price = LastTrade.ask_trade.price
        /\ LastTrade.bid_trade.quantity = LastTrade.ask_trade.quantity
        /\ BidParty.side = "Buy"
        /\ AskParty.side = "Sell"
        /\ LastTrade.bid_trade.order_id # LastTrade.ask_trade.order_id]_vars

(* A trade is in the ledger below the limit price of its bid, which rests  *)
(* partly filled.                                                          *)
C13_Witness ==
    /\ trades # <<>>
    /\ \E pl \in PlacesOn("Buy", bids) :
          /\ pl.order.order_id = trades[Len(trades)].bid_trade.order_id
          /\ pl.price > trades[Len(trades)].bid_trade.price
          /\ pl.order.remaining_quantity >= 1

(* The heads the loop takes in this step. *)
HeadBid == Head(bids[SetMax(DOMAIN bids)])

HeadAsk == Head(asks[SetMin(DOMAIN asks)])

(* Where the order id rests after the step. *)
PlacesAfter(id) == {pl \in Places' : pl.order.order_id = id}

(* After the step the order head rests with its remaining quantity lowered *)
(* by quantity, or rests nowhere and had exactly quantity left.            *)
LoweredBy(head, quantity) ==
    /\ \A pl \in PlacesAfter(head.order_id) :
          pl.order.remaining_quantity + quantity = head.remaining_quantity
    /\ PlacesAfter(head.order_id) = {} => head.remaining_quantity = quantity

(* C14: a step of the loop records as trade quantity the smaller of the    *)
(* two heads' remaining quantities, lowers the remaining quantity of both  *)
(* heads by it, and neither call of fill returns FillOverflow.             *)
C14_FillIsMinimum ==
    [][Trades1 =>
        LET to_fill == LastTrade.bid_trade.quantity
        IN /\ to_fill <= HeadBid.remaining_quantity
           /\ to_fill <= HeadAsk.remaining_quantity
           /\ to_fill \in {HeadBid.remaining_quantity, HeadAsk.remaining_quantity}
           /\ LoweredBy(HeadBid, to_fill)
           /\ LoweredBy(HeadAsk, to_fill)
           /\ FillResult(HeadBid, to_fill) = "Ok"
           /\ FillResult(HeadAsk, to_fill) = "Ok"]_vars

(* A trade of quantity 1 has left its ask at its level with 1 of 2, while  *)
(* the index copy of the ask still says 2.                                 *)
C14_Witness ==
    /\ trades # <<>>
    /\ trades[Len(trades)].ask_trade.quantity = 1
    /\ \E pl \in PlacesOn("Sell", asks) :
          /\ pl.order.order_id = trades[Len(trades)].ask_trade.order_id
          /\ pl.order.remaining_quantity = 1
          /\ \E i \in IndexPlaces(pl.order.order_id) : orders[i].remaining_quantity = 2

(* The order id is in the index after the step. *)
LiveAfter(id) == \E i \in 1..Len(orders') : orders'[i].order_id = id

(* After the step the order head, if the trade took all it had left, is at *)
(* no level and not in the index.                                          *)
EvictedIfFilled(head, quantity) ==
    head.remaining_quantity = quantity
        => PlacesAfter(head.order_id) = {} /\ ~LiveAfter(head.order_id)

(* C15: the step of the loop that leaves a head order with remaining       *)
(* quantity 0 also takes it from its level and from the index.             *)
C15_FilledIsEvicted ==
    [][Trades1 =>
        /\ EvictedIfFilled(HeadBid, LastTrade.bid_trade.quantity)
        /\ EvictedIfFilled(HeadAsk, LastTrade.ask_trade.quantity)]_vars

(* Inside a pass, a trade of a positive quantity has filled both its       *)
(* orders: neither is in the index.                                        *)
C15_Witness ==
    /\ pc = "match"
    /\ trades # <<>>
    /\ ~Live(trades[Len(trades)].bid_trade.order_id)
    /\ ~Live(trades[Len(trades)].ask_trade.order_id)
    /\ trades[Len(trades)].bid_trade.quantity >= 1

SideOf(B, side) == IF side = "Buy" THEN B.bids ELSE B.asks

Opposite(side) == IF side = "Buy" THEN "Sell" ELSE "Buy"

QueueAt(m, price) == IF price \in DOMAIN m THEN m[price] ELSE <<>>

(* C17: a call of add_order that returns Ok returns the book it was given  *)
(* with the order added last in the index and last in the queue of its     *)
(* price on its side, that level made if it was absent; the ledger, the    *)
(* other side and the other levels of its side are as they were.           *)
C17_AdmissionOnlyAppends ==
    \A order \in PairInputs :
        LET r == add_order(ThisBook, order)
            before == SideOf(ThisBook, order.side)
            after == SideOf(r.book, order.side)
        IN r.result = "Ok" =>
              /\ r.book.orders = orders \o <<order>>
              /\ r.book.trades = trades
              /\ SideOf(r.book, Opposite(order.side)) = SideOf(ThisBook, Opposite(order.side))
              /\ DOMAIN after = DOMAIN before \cup {order.price}
              /\ after[order.price] = QueueAt(before, order.price) \o <<order>>
              /\ \A p \in DOMAIN before \ {order.price} : after[p] = before[p]

(* The order admitted last crosses the order admitted before it: outside  *)
(* any pass the book is crossed, both orders rest untouched, and the       *)
(* ledger is empty.                                                        *)
C17_Witness ==
    /\ pc = "idle"
    /\ trades = <<>>
    /\ Len(orders) = 2
    /\ Crossing(ThisBook)
    /\ \A i \in 1..2 :
          /\ orders[i].remaining_quantity = orders[i].initial_quantity
          /\ LevelOf(orders[i].order_id) = <<orders[i]>>

(* C18: add_order returns IdExists exactly for an order whose id is in the *)
(* index, whatever its type; no id is twice in the index or twice in the   *)
(* level queues; and a GoodTillCancelled order whose id is not in the      *)
(* index is admitted.                                                      *)
C18_IdsUnique ==
    /\ \A order \in PairInputs :
          add_order(ThisBook, order).result = "IdExists" <=> Live(order.order_id)
    /\ \A id \in PairIds :
          /\ Cardinality(IndexPlaces(id)) <= 1
          /\ Cardinality(LevelPlaces(id)) <= 1
    /\ \A order \in PairInputs :
          ~Live(order.order_id) /\ order.order_type = "GoodTillCancelled"
              => add_order(ThisBook, order).result = "Ok"

(* After a pass the ledger names an id that is no longer in the index, and *)
(* an order with that id is admitted; the other id is in the index, and a  *)
(* FillAndKill submission with it, which nothing would match, is rejected  *)
(* with IdExists.                                                          *)
C18_Witness ==
    /\ pc = "idle"
    /\ trades # <<>>
    /\ \E order \in PairInputs :
          /\ order.order_id = trades[Len(trades)].bid_trade.order_id
          /\ ~Live(order.order_id)
          /\ add_order(ThisBook, order).result = "Ok"
    /\ \E order \in PairInputs :
          /\ order.order_type = "FillAndKill"
          /\ Live(order.order_id)
          /\ ~can_match(ThisBook, order.side, order.price)
          /\ add_order(ThisBook, order).result = "IdExists"

(* The opposing side of an order has a first price and it crosses the      *)
(* order's price: the lowest ask is at most a buy's price, the highest bid *)
(* at least a sell's.                                                      *)
BestOpposingCrosses(order) ==
    LET opposing == DOMAIN SideOf(ThisBook, Opposite(order.side))
    IN \E best \in opposing :
          IF order.side = "Buy"
          THEN (\A p \in opposing : best <= p) /\ best <= order.price
          ELSE (\A p \in opposing : best >= p) /\ best >= order.price

(* C19: for a FillAndKill order whose id is not in the index, add_order    *)
(* returns Ok if the opposing best price crosses the order's price and     *)
(* CantMatch if not.                                                       *)
C19_FillAndKillAdmission ==
    \A order \in OrderInputs :
        order.order_type = "FillAndKill" /\ ~Live(order.order_id)
            => add_order(ThisBook, order).result =
                  (IF BestOpposingCrosses(order) THEN "Ok" ELSE "CantMatch")

(* A FillAndKill buy is admitted against an ask side whose orders all have *)
(* remaining quantity 0, and one at a lower price is rejected.             *)
C19_Witness ==
    /\ pc = "idle"
    /\ \A o \in LevelOrders(asks) : o.remaining_quantity = 0
    /\ \E order \in OrderInputs :
          /\ order.order_type = "FillAndKill"
          /\ order.side = "Buy"
          /\ add_order(ThisBook, order).result = "Ok"
    /\ \E order \in OrderInputs :
          /\ order.order_type = "FillAndKill"
          /\ order.side = "Buy"
          /\ add_order(ThisBook, order).result = "CantMatch"

(* The sum of the remaining quantities of the orders at a set of places. *)
RECURSIVE QuantityAt(_)
QuantityAt(places) ==
    IF places = {}
    THEN 0
    ELSE LET pl == CHOOSE x \in places : TRUE
         IN pl.order.remaining_quantity + QuantityAt(places \ {pl})

(* Where the orders rest that an order's price crosses: asks at its price  *)
(* or below for a buy, bids at its price or above for a sell.              *)
CrossedPlaces(order) ==
    IF order.side = "Buy"
    THEN {pl \in PlacesOn("Sell", asks) : pl.price <= order.price}
    ELSE {pl \in PlacesOn("Buy", bids) : pl.price >= order.price}

OpposingPlaces(order) ==
    IF order.side = "Buy" THEN PlacesOn("Sell", asks) ELSE PlacesOn("Buy", bids)

(* C20: for a FillOrKill order whose id is not in the index, add_order     *)
(* returns Ok if the remaining quantities of the opposing orders at        *)
(* crossing prices sum to at least the order's quantity, and CantFullyFill *)
(* if not.                                                                 *)
C20_FillOrKillAdmission ==
    \A order \in OrderInputs :
        order.order_type = "FillOrKill" /\ ~Live(order.order_id)
            => add_order(ThisBook, order).result =
                  (IF QuantityAt(CrossedPlaces(order)) >= order.initial_quantity
                   THEN "Ok"
                   ELSE "CantFullyFill")

(* Two asks rest at two prices and a FillOrKill buy for their total at the *)
(* lower price is rejected, while one at the higher price is admitted.     *)
C20_Witness ==
    /\ pc = "idle"
    /\ Cardinality(DOMAIN asks) = 2
    /\ \E order \in OrderInputs :
          /\ order.order_type = "FillOrKill"
          /\ order.side = "Buy"
          /\ QuantityAt(OpposingPlaces(order)) = order.initial_quantity
          /\ add_order(ThisBook, order).result = "CantFullyFill"
    /\ \E order \in OrderInputs :
          /\ order.order_type = "FillOrKill"
          /\ order.side = "Buy"
          /\ QuantityAt(OpposingPlaces(order)) = order.initial_quantity
          /\ add_order(ThisBook, order).result = "Ok"

(* C21: for a Market order whose id is not in the index, add_order returns *)
(* Ok if the opposing side has a price level and NoLiquidity if it has     *)
(* none.                                                                   *)
C21_MarketAdmission ==
    \A order \in OrderInputs :
        order.order_type = "Market" /\ ~Live(order.order_id)
            => add_order(ThisBook, order).result =
                  (IF DOMAIN SideOf(ThisBook, Opposite(order.side)) # {}
                   THEN "Ok"
                   ELSE "NoLiquidity")

(* Only asks rest, at the highest limit price: a Market buy is admitted    *)
(* and a Market sell is rejected.                                          *)
C21_Witness ==
    /\ pc = "idle"
    /\ DOMAIN bids = {}
    /\ DOMAIN asks = {MaxLimit}
    /\ \E order \in OrderInputs :
          /\ order.order_type = "Market"
          /\ order.side = "Buy"
          /\ add_order(ThisBook, order).result = "Ok"
    /\ \E order \in OrderInputs :
          /\ order.order_type = "Market"
          /\ order.side = "Sell"
          /\ add_order(ThisBook, order).result = "NoLiquidity"

(* The orders of a queue other than the order id, in their order. *)
Without(q, id) == SelectSeq(q, LAMBDA o : o.order_id # id)

(* The map m with the order id taken from every queue and the levels left  *)
(* without an order dropped.                                               *)
LevelsWithout(m, id) ==
    [p \in {k \in DOMAIN m : Without(m[k], id) # <<>>} |-> Without(m[p], id)]

(* C22: cancel_order of an id in the index returns Ok and the book it was  *)
(* given less that order: the index and the queue of its level keep their  *)
(* other orders in order, the level is dropped if it held no other order,  *)
(* the other levels, the other side and the ledger are as they were; and   *)
(* cancel_order of the same id on the returned book returns OrderNotFound. *)
C22_CancelRemovesOne ==
    \A id \in Ids :
        Live(id) =>
            LET r == cancel_order(ThisBook, id)
            IN /\ r.result = "Ok"
               /\ r.book.orders = Without(orders, id)
               /\ Len(r.book.orders) = Len(orders) - 1
               /\ r.book.bids = LevelsWithout(bids, id)
               /\ r.book.asks = LevelsWithout(asks, id)
               /\ Cardinality(Places) = Len(orders)
               /\ r.book.trades = trades
               /\ cancel_order(r.book, id).result = "OrderNotFound"
               /\ cancel_order(r.book, id).book = r.book

(* Three orders rest at one bid level, the second of them modified since   *)
(* its admission.                                                          *)
C22_Witness ==
    /\ pc = "idle"
    /\ \E p \in DOMAIN bids :
          /\ Len(bids[p]) = 3
          /\ bids[p][2].remaining_quantity # bids[p][2].initial_quantity

(* The queue q with new_quantity as remaining quantity of the order id,    *)
(* every order at its place.                                               *)
Requantified(q, id, new_quantity) ==
    [i \in 1..Len(q) |->
        IF q[i].order_id = id
        THEN [order_id |-> id,
              order_type |-> q[i].order_type,
              side |-> q[i].side,
              price |-> q[i].price,
              initial_quantity |-> q[i].initial_quantity,
              remaining_quantity |-> new_quantity]
        ELSE q[i]]

(* C23: modify_order of an id in the index returns Ok and the book it was  *)
(* given with the new quantity as remaining quantity of the index copy and *)
(* of the level copy of that order; every order is at its place, the       *)
(* order's other fields, the other orders and the ledger are as they were. *)
C23_ModifyOverwritesInPlace ==
    \A id \in Ids, new_quantity \in Quantities :
        Live(id) =>
            LET r == modify_order(ThisBook, id, new_quantity)
            IN /\ r.result = "Ok"
               /\ r.book.orders = Requantified(orders, id, new_quantity)
               /\ r.book.bids = [p \in DOMAIN bids |-> Requantified(bids[p], id, new_quantity)]
               /\ r.book.asks = [p \in DOMAIN asks |-> Requantified(asks[p], id, new_quantity)]
               /\ r.book.trades = trades
               /\ \E pl \in LevelPlaces(id) : pl.order.order_id = id

(* The first of two orders at one level has been modified to more than its *)
(* initial quantity and is still the first.                                *)
C23_Witness ==
    /\ pc = "idle"
    /\ \E pl \in Places :
          /\ pl.at = 1
          /\ Len(SideOf(ThisBook, pl.side)[pl.price]) = 2
          /\ pl.order.remaining_quantity > pl.order.initial_quantity
          /\ AdmittedBefore(pl.order.order_id,
                            SideOf(ThisBook, pl.side)[pl.price][2].order_id)

(* The orders of a queue that are not GoodForDay orders, in their order. *)
OtherThanGoodForDay(q) == SelectSeq(q, LAMBDA o : o.order_type # "GoodForDay")

(* The map m without its GoodForDay orders and without the levels they     *)
(* alone held.                                                             *)
LevelsOtherThanGoodForDay(m) ==
    [p \in {k \in DOMAIN m : OtherThanGoodForDay(m[k]) # <<>>}
        |-> OtherThanGoodForDay(m[p])]

C25_PruneIdempotent ==
    LET once == prune_good_for_day_orders(ThisBook)
        twice == prune_good_for_day_orders(once)
    IN /\ twice = once
       /\ prune_good_for_day_orders(twice) = once

(* Two GoodForDay orders are in the index: the first call removes both. *)
C25_Witness ==
    /\ pc = "idle"
    /\ Len(orders) = 2
    /\ \A i \in 1..2 : orders[i].order_type = "GoodForDay"
    /\ prune_good_for_day_orders(ThisBook) # ThisBook

(* The prices at which an order of one side rests. *)
RestingPrices(side) == {pl.price : pl \in {x \in Places : x.side = side}}

(* The sum of the remaining quantities of the orders of one side that rest *)
(* at one price.                                                           *)
RestingQuantity(side, price) ==
    QuantityAt({pl \in Places : pl.side = side /\ pl.price = price})

(* The level infos are one per price at which an order of the side rests,  *)
(* and each quantity is what Expected makes of the sum of the remaining    *)
(* quantities of the orders at that price.                                 *)
SnapshotOf(infos, side, Expected(_)) ==
    /\ {infos[i].price : i \in 1..Len(infos)} = RestingPrices(side)
    /\ Len(infos) = Cardinality(RestingPrices(side))
    /\ \A i \in 1..Len(infos) :
          infos[i].quantity = Expected(RestingQuantity(side, infos[i].price))

Exactly(sum) == sum

Saturated(sum) == IF sum > QuantityMax THEN QuantityMax ELSE sum

SnapshotOrdered ==
    LET levels == get_levels(ThisBook)
    IN /\ \A i, j \in 1..Len(levels.bids) :
             i < j => levels.bids[i].price > levels.bids[j].price
       /\ \A i, j \in 1..Len(levels.asks) :
             i < j => levels.asks[i].price < levels.asks[j].price

(* C26, as the spec states it: get_levels returns, for each side, one      *)
(* entry per price at which an order rests, bids by descending and asks by *)
(* ascending price, each with the sum of the remaining quantities of the   *)
(* orders at that price.                                                   *)
C26_SnapshotExact ==
    /\ SnapshotOf(get_levels(ThisBook).bids, "Buy", Exactly)
    /\ SnapshotOf(get_levels(ThisBook).asks, "Sell", Exactly)
    /\ SnapshotOrdered

(* C26, amended: as above, each quantity being that sum or, if the sum is  *)
(* above u32::MAX, u32::MAX.                                               *)
C26_SnapshotSaturated ==
    /\ SnapshotOf(get_levels(ThisBook).bids, "Buy", Saturated)
    /\ SnapshotOf(get_levels(ThisBook).asks, "Sell", Saturated)
    /\ SnapshotOrdered

(* Two bids rest at one price with remaining quantities that sum to more   *)
(* than u32::MAX, and the snapshot gives u32::MAX for the level.           *)
C26_Witness ==
    /\ pc = "idle"
    /\ \E p \in DOMAIN bids :
          /\ Len(bids[p]) = 2
          /\ RestingQuantity("Buy", p) > QuantityMax
    /\ get_levels(ThisBook).bids[1].quantity = QuantityMax

(* C27: a step changes the ledger only by adding one trade after the       *)
(* trades it holds, inside a pass of match_orders, or by emptying it while *)
(* the book is left as it is, outside any pass (clear_trades).             *)
C27_LedgerAppendOnly ==
    [][\/ trades' = trades
       \/ /\ pc = "match"
          /\ Len(trades') = Len(trades) + 1
          /\ SubSeq(trades', 1, Len(trades)) = trades
       \/ /\ pc = "idle"
          /\ trades' = <<>>
          /\ UNCHANGED <<bids, asks, orders, pc>>]_vars

(* The ledger holds the trades of two passes and an order admitted since   *)
(* rests in the book.                                                      *)
C27_Witness ==
    /\ pc = "idle"
    /\ Len(trades) = 2
    /\ \E i \in 1..Len(orders) :
          /\ orders[i].order_id = trades[2].bid_trade.order_id
          /\ orders[i].remaining_quantity = orders[i].initial_quantity

(* C28: midprice returns None when a side has no level, and otherwise the  *)
(* sum of the highest bid price and the lowest ask price halved, rounded   *)
(* down, whatever the build.                                               *)
C28_MidpriceExact ==
    \A build \in Builds :
        midprice(ThisBook, build) =
            IF DOMAIN bids = {} \/ DOMAIN asks = {}
            THEN NoPrice
            ELSE SomePrice((SetMax(DOMAIN bids) + SetMin(DOMAIN asks)) \div 2)

(* C29: while shutdown has begun and not returned, the owner or the task   *)
(* can take a step: no state is a deadlock.                                *)
C29_ShutdownCompletes ==
    caller \in {"notify", "join"}
        => ENABLED (ShutdownNotify \/ ShutdownJoin \/ TaskNext)

(* C30: once shutdown has returned, the task is not running: it was never  *)
(* started or it has left its loop.                                        *)
C30_NoTaskAfterShutdown ==
    caller = "down" => thread \in {"none", "exited"} /\ prune_handle = "None"

(* shutdown has returned, the task it had to join has left its loop, and   *)
(* a GoodForDay order is still in the book.                                *)
C30_Witness ==
    /\ caller = "down"
    /\ thread = "exited"
    /\ shutdown
    /\ \E i \in 1..Len(orders) : orders[i].order_type = "GoodForDay"

(* C31: once shutdown has set the flag and notified the condition          *)
(* variable, the task is not left in a wait that the notification did not  *)
(* reach, which only the timeout (or a spurious wake-up) ends.             *)
C31_ShutdownNeverMissed ==
    (shutdown /\ caller \in {"join", "down"}) => thread # "wait"

(* The task cancels the ids it has collected in this step. *)
TaskCancels == thread = "cancel" /\ thread' = "loop"

(* The orders of the index, and of the levels, that a step removes. *)
RemovedFromIndex == {orders[i] : i \in 1..Len(orders)} \ {orders'[i] : i \in 1..Len(orders')}

RemovedFromLevels == {pl.order : pl \in Places} \ {pl.order : pl \in Places'}

(* C32: the cancelling step of a background prune pass removes no order    *)
(* whose type is not GoodForDay, from the index or from a level, and a     *)
(* collected id that is no longer live is skipped: the orders it removes   *)
(* are those of the collected ids that are live.                           *)
C32_TaskPrunesOnlyGoodForDay ==
    [][TaskCancels =>
          /\ \A o \in RemovedFromIndex \cup RemovedFromLevels : IsGoodForDay(o)
          /\ \A o \in RemovedFromIndex :
                \E i \in 1..Len(order_ids) : order_ids[i] = o.order_id
          /\ trades' = trades]_vars

(* The task leaves its loop, or goes on to a prune pass, in this step. *)
TaskExits == thread = "woken" /\ thread' = "exited"

TaskPrunes == thread = "woken" /\ thread' = "collect"

(* C33: when its wait has ended the task goes on to a prune pass only if   *)
(* the wait timed out and shutdown is not requested, and it leaves its     *)
(* loop only if shutdown is requested; it leaves with nothing collected    *)
(* and the book as it was, and a prune pass ends at the top of the loop.   *)
C33_TaskLoopOutcomes ==
    [][/\ TaskPrunes => timed_out /\ ~shutdown
       /\ TaskExits => shutdown
       /\ TaskExits => order_ids' = <<>> /\ UNCHANGED <<bids, asks, orders, trades>>
       /\ thread' = "exited" => thread \in {"woken", "exited"}
       /\ TaskCancels => thread' = "loop"]_vars

(* The places of the first level of each side. *)
BestPlaces ==
    {pl \in Places :
        pl.price = IF pl.side = "Buy" THEN SetMax(DOMAIN bids) ELSE SetMin(DOMAIN asks)}

Keeping(q, ids) == SelectSeq(q, LAMBDA o : o.order_id \notin ids)

LevelsKeeping(m, ids) ==
    [p \in {k \in DOMAIN m : Keeping(m[k], ids) # <<>>} |-> Keeping(m[p], ids)]

(* The step removes the orders at the places swept, from the index and     *)
(* from their levels, and leaves every other order where and as it was.    *)
SweepRemoves(swept) ==
    LET ids == {pl.order.order_id : pl \in swept}
    IN /\ orders' = Keeping(orders, ids)
       /\ bids' = LevelsKeeping(bids, ids)
       /\ asks' = LevelsKeeping(asks, ids)
       /\ trades' = trades

(* C34, as the spec states it: the sweep of match_orders cancels the       *)
(* FillAndKill or Market order at the head of the best bid level and of    *)
(* the best ask level, and leaves every other order in the book unchanged. *)
C34_SweepReadsHeads ==
    [][MatchReturns =>
          SweepRemoves({pl \in BestPlaces : pl.at = 1 /\ IsSwept(pl.order)})]_vars

(* C34, amended: the sweep cancels every FillAndKill or Market order of    *)
(* the best bid level and of the best ask level, whatever its place in the *)
(* queue, and leaves every other order in the book unchanged.              *)
C34_SweepReadsBestLevels ==
    [][MatchReturns => SweepRemoves({pl \in BestPlaces : IsSwept(pl.order)})]_vars

(* The loop of a pass has ended after a trade, and a FillAndKill order is  *)
(* queued at the best bid level behind an order of another type: the sweep *)
(* is about to read that level.                                            *)
C34_Witness ==
    /\ pc = "match"
    /\ ~Crossing(ThisBook)
    /\ trades # <<>>
    /\ \E pl \in BestPlaces :
          /\ pl.side = "Buy"
          /\ pl.at = 2
          /\ pl.order.order_type = "FillAndKill"
          /\ ~IsSwept(bids[pl.price][1])

(* The condition on which the loop of match_orders ends. *)
LoopEnded ==
    \/ DOMAIN bids = {}
    \/ DOMAIN asks = {}
    \/ SetMax(DOMAIN bids) < SetMin(DOMAIN asks)

(* The ids of the two orders an iteration of the loop takes. *)
HeadIds == {HeadBid.order_id, HeadAsk.order_id}

(* C35: a pass of match_orders, once called, returns.  A step inside the   *)
(* pass is an iteration of the loop unless the loop has ended, and then it *)
(* is the return; an iteration appends one trade and takes the bid head,   *)
(* the ask head or both, and no other order, out of the index, so that     *)
(* trades appended plus live orders never grows over a pass; and no        *)
(* iteration panics.  The callers modify orders to quantity 0.             *)
C35_MatchTerminates ==
    /\ [][pc = "match" =>
              IF LoopEnded
              THEN pc' = "idle" /\ trades' = trades
              ELSE /\ pc' = "match"
                   /\ Len(trades') = Len(trades) + 1
                   /\ Len(orders') < Len(orders)
                   /\ \A id \in HeadIds : Live(id)
                   /\ \A id \in Ids \ HeadIds : Live(id) => LiveAfter(id)]_vars
    /\ (pc = "match") ~> (pc = "idle")

(* A pass has returned after an iteration that met an order of remaining   *)
(* quantity 0 at the head of a level: its trade has quantity 0, one order  *)
(* was taken out and the other rests.                                      *)
C35_Witness ==
    /\ pc = "idle"
    /\ Len(trades) = 1
    /\ trades[1].bid_trade.quantity = 0
    /\ Len(orders) = 1
    /\ orders[1].remaining_quantity > 0

(* C36: for every live order, the copy in the index and the copy in its    *)
(* level queue have the same fields, the remaining quantity among them.    *)
C36_CopiesAgree ==
    \A pl \in Places :
        /\ Live(pl.order.order_id)
        /\ Get(orders, pl.order.order_id) = pl.order

(* C37: every trade the loop appends has, in both of its halves, a price   *)
(* no lower than the price of its ask order and no higher than the price   *)
(* of its bid order.                                                       *)
C37_TradePriceAcceptable ==
    [][Trades1 =>
          /\ AskParty.price <= LastTrade.ask_trade.price
          /\ LastTrade.ask_trade.price <= BidParty.price
          /\ AskParty.price <= LastTrade.bid_trade.price
          /\ LastTrade.bid_trade.price <= BidParty.price]_vars

(* A bid has traded below its limit price, at the price of the ask, and    *)
(* still rests partly filled.                                              *)
C37_Witness ==
    /\ Len(trades) = 1
    /\ \E pl \in Places :
          /\ pl.side = "Buy"
          /\ pl.order.order_id = trades[1].bid_trade.order_id
          /\ pl.order.order_type # "Market"
          /\ pl.order.price > trades[1].bid_trade.price
          /\ pl.order.remaining_quantity < pl.order.initial_quantity

(* The quantity the trades of a ledger give to an order id, on either      *)
(* side, and the totals of the two sides.                                  *)
RECURSIVE TradedIn(_, _)
TradedIn(t, id) ==
    IF t = <<>>
    THEN 0
    ELSE (IF Head(t).bid_trade.order_id = id THEN Head(t).bid_trade.quantity ELSE 0)
         + (IF Head(t).ask_trade.order_id = id THEN Head(t).ask_trade.quantity ELSE 0)
         + TradedIn(Tail(t), id)

RECURSIVE BidTotal(_)
BidTotal(t) == IF t = <<>> THEN 0 ELSE Head(t).bid_trade.quantity + BidTotal(Tail(t))

RECURSIVE AskTotal(_)
AskTotal(t) == IF t = <<>> THEN 0 ELSE Head(t).ask_trade.quantity + AskTotal(Tail(t))

(* The ids the caller has given to an order, and to one order only. *)
EverAdmitted == {id \in Ids : submitted[id].times >= 1}

AdmittedOnce == {id \in Ids : submitted[id].times = 1}

(* What the ledger holds for the orders of these ids: for one that rests,  *)
(* its initial quantity less the remaining quantity of its level copy, and *)
(* for any, no more than its initial quantity.                             *)
ConservedFor(ids) ==
    /\ \A id \in ids :
          /\ \A pl \in LevelPlaces(id) :
                TradedIn(trades, id)
                    = pl.order.initial_quantity - pl.order.remaining_quantity
          /\ TradedIn(trades, id) <= submitted[id].initial_quantity
    /\ BidTotal(trades) = AskTotal(trades)

(* An iteration of the loop that evicts an order of these ids leaves the   *)
(* ledger with its full initial quantity.                                  *)
EvictedWhole(ids) ==
    \A id \in ids :
        (pc = "match" /\ pc' = "match" /\ Live(id) /\ ~LiveAfter(id))
            => TradedIn(trades', id) = Get(orders, id).initial_quantity

(* C38, as the spec states it: with no modify and no clear_trades, the     *)
(* trades of the ledger that name an order ever admitted sum to its        *)
(* initial quantity less the remaining quantity of its level copy, to its  *)
(* full initial quantity when it is evicted as filled, and never to more   *)
(* than its initial quantity; the two sides of the ledger have the same    *)
(* total.                                                                  *)
C38_QuantityConserved ==
    /\ [](ConservedFor(EverAdmitted))
    /\ [][EvictedWhole(EverAdmitted)]_vars

(* C38, amended: the same, for the orders whose id the caller has given to *)
(* no other order.                                                         *)
C38_QuantityConservedById ==
    /\ [](ConservedFor(AdmittedOnce))
    /\ [][EvictedWhole(AdmittedOnce)]_vars

(* An order whose id was used once has been filled by two trades and       *)
(* evicted: the ledger names it for its full initial quantity.             *)
C38_Witness ==
    /\ pc = "idle"
    /\ Len(trades) = 2
    /\ \E id \in AdmittedOnce :
          /\ ~Live(id)
          /\ trades[1].bid_trade.order_id = id
          /\ trades[2].bid_trade.order_id = id
          /\ TradedIn(trades, id) = submitted[id].initial_quantity

(* C39: every trade of the ledger has a quantity of at least 1, in both of *)
(* its halves.                                                             *)
C39_TradeQuantityPositive ==
    \A i \in 1..Len(trades) :
        /\ trades[i].bid_trade.quantity >= 1
        /\ trades[i].ask_trade.quantity >= 1

(* The orders of a type that rest in the book. *)
RestingOf(type) == {pl \in Places : pl.order.order_type = type}

(* C40: for a caller that calls match_orders right after every admission,  *)
(* admits quantities of 1 and more and does not modify: when match_orders  *)
(* returns, no FillAndKill, FillOrKill or Market order is in the book; no  *)
(* FillOrKill order leaves the book but by an iteration of the loop that   *)
(* leaves the ledger, emptied before its admission, with trades for its    *)
(* full initial quantity; and a FillAndKill order that the sweep finds in  *)
(* the book, like one the loop has evicted, has traded a quantity of 1 or  *)
(* more.                                                                   *)
C40_ImmediateTypesUnderDiscipline ==
    /\ [][MatchReturns =>
              /\ RestingOf("FillAndKill")' = {}
              /\ RestingOf("FillOrKill")' = {}
              /\ RestingOf("Market")' = {}
              /\ RestingOf("FillOrKill") = {}
              /\ \A pl \in RestingOf("FillAndKill") :
                    TradedIn(trades, pl.order.order_id) >= 1]_vars
    /\ [][\A pl \in RestingOf("FillOrKill") \cup RestingOf("FillAndKill") :
              ~LiveAfter(pl.order.order_id) =>
                  /\ pc = "match"
                  /\ TradedIn(trades', pl.order.order_id) >= 1
                  /\ pl.order.order_type = "FillOrKill" =>
                        /\ pc' = "match"
                        /\ TradedIn(trades', pl.order.order_id)
                              = pl.order.initial_quantity]_vars

(* In the pass that follows its admission, a FillOrKill order admitted    *)
(* for a quantity of 2 has traded 1 with the best ask and is about to      *)
(* trade with the next one.                                                *)
C40_Witness ==
    /\ pc = "match"
    /\ Len(trades) = 1
    /\ Crossing(ThisBook)
    /\ \E pl \in RestingOf("FillOrKill") :
          /\ pl.order.initial_quantity = 2
          /\ pl.order.remaining_quantity = 1
          /\ TradedIn(trades, pl.order.order_id) = 1

====
